---- MODULE Spec2Model ----
(***************************************************************************)
(* Model of the zh-science front end: the session helpers of lib/auth.ts,  *)
(* the global inactivity tracker of pages/_app.tsx, the NavBar logout, the *)
(* login page, the add-publication page, the admin moderation page, the    *)
(* home page search, the FacetMultiSelect component, the authors page, the *)
(* SourceBadge component and the 'my publications' page.                   *)
(*                                                                         *)
(* Strings that the code converts (String(Date.now()), Number(v)) are      *)
(* sequences of one-character strings, so that formatting and parsing are  *)
(* computed.  Other strings (roles, tokens) are TLA+ strings.              *)
(***************************************************************************)
EXTENDS Integers, Sequences, FiniteSets, TLC

(* ------------------------------------------------------------------ *)
(* Bounds                                                             *)
(* ------------------------------------------------------------------ *)
MaxTicks == 3
MaxInFlight == 1
MaxSearches == 2
MaxFacetReqs == 2
MaxQLen == 2

(* ------------------------------------------------------------------ *)
(* lib/auth.ts                                                        *)
(* ------------------------------------------------------------------ *)
INACTIVITY_TIMEOUT_MS == 24 * 60 * 60 * 1000

\* localStorage.getItem returns null for a key that is not stored
Null == "<null>"
NullStr == <<"<null>">>

Digits == <<"0", "1", "2", "3", "4", "5", "6", "7", "8", "9">>
InfinityStr == <<"I", "n", "f", "i", "n", "i", "t", "y">>

IsDigit(c) == \E i \in 1..10 : Digits[i] = c
DigitVal(c) == (CHOOSE i \in 1..10 : Digits[i] = c) - 1

\* String(n) for a non-negative integer: its decimal digits
RECURSIVE String(_)
String(n) ==
  IF n < 10 THEN <<Digits[n + 1]>>
  ELSE String(n \div 10) \o <<Digits[(n % 10) + 1]>>

RECURSIVE TrimLeft(_)
TrimLeft(s) == IF s # <<>> /\ Head(s) = " " THEN TrimLeft(Tail(s)) ELSE s
RECURSIVE TrimRight(_)
TrimRight(s) ==
  IF s # <<>> /\ s[Len(s)] = " " THEN TrimRight(SubSeq(s, 1, Len(s) - 1)) ELSE s
Trim(s) == TrimRight(TrimLeft(s))

RECURSIVE DecValue(_)
DecValue(s) ==
  IF s = <<>> THEN 0
  ELSE DecValue(SubSeq(s, 1, Len(s) - 1)) * 10 + DigitVal(s[Len(s)])

NaN == [kind |-> "NaN", val |-> 0]
Infinity == [kind |-> "Infinity", val |-> 0]
Num(n) == [kind |-> "number", val |-> n]

\* Number(v) of a string: surrounding white space is dropped, the empty
\* string is 0, a run of decimal digits is its value, "Infinity" is
\* Infinity and anything else is NaN.
Number(s) ==
  LET t == Trim(s) IN
  IF t = <<>> THEN Num(0)
  ELSE IF \A i \in 1..Len(t) : IsDigit(t[i]) THEN Num(DecValue(t))
  ELSE IF t = InfinityStr THEN Infinity
  ELSE NaN

Number_isFinite(x) == x.kind = "number"

\* !v for a value read from localStorage: null and the empty string are falsy
Falsy(v) == v = Null \/ v = ""
FalsyStr(v) == v = NullStr \/ v = <<>>

Roles == {"guest", "user", "admin", "teacher", "student"}

getRole(ls) == IF ls.role \in {"user", "admin", "teacher", "student"} THEN ls.role ELSE "guest"

getToken(ls) == IF Falsy(ls.token) THEN "" ELSE ls.token

\* getUserId: the number stored under user_id, or null
getUserId(ls) ==
  IF FalsyStr(ls.user_id) THEN [kind |-> "null", val |-> 0]
  ELSE LET n == Number(ls.user_id) IN
       IF Number_isFinite(n) THEN n ELSE [kind |-> "null", val |-> 0]

uuidv4 == "uuid"

ensureClientId(ls) == IF Falsy(ls.clientId) THEN [ls EXCEPT !.clientId = uuidv4] ELSE ls

\* setAuth(role, token, userId) at time t; userId is [kind |-> "undefined"]
\* when the caller omits it, [kind |-> "null"] or [kind |-> "number", val |-> n]
setAuth(ls, t, role, token, userId) ==
  LET l1 == [ls EXCEPT !.role = role]
      l2 == [l1 EXCEPT !.token = IF Falsy(token) THEN Null ELSE token]
      l3 == IF userId.kind = "undefined" THEN l2
            ELSE IF userId.kind = "null" THEN [l2 EXCEPT !.user_id = NullStr]
            ELSE [l2 EXCEPT !.user_id = String(userId.val)]
      l4 == [l3 EXCEPT !.last_active_at = String(t)]
  IN ensureClientId(l4)

\* clearAuth that leaves user_id in the storage
clearAuth_keepUserId(ls) == [ls EXCEPT !.token = Null, !.role = "guest"]

clearAuth(ls) == [ls EXCEPT !.token = Null, !.user_id = NullStr, !.role = "guest"]

markActivity(ls, t) == [ls EXCEPT !.last_active_at = String(t)]

\* isSessionExpired with the comparison written >= instead of >
isSessionExpired_ge(ls, t) ==
  LET v == ls.last_active_at IN
  IF FalsyStr(v) THEN FALSE
  ELSE LET last == Number(v) IN
       IF ~Number_isFinite(last) THEN FALSE
       ELSE t - last.val >= INACTIVITY_TIMEOUT_MS

isSessionExpired(ls, t) ==
  LET v == ls.last_active_at IN
  IF FalsyStr(v) THEN FALSE
  ELSE LET last == Number(v) IN
       IF ~Number_isFinite(last) THEN FALSE
       ELSE t - last.val > INACTIVITY_TIMEOUT_MS

\* maybeExpireSession: the storage it leaves and the value it returns
maybeExpireSession(ls, t) ==
  IF isSessionExpired(ls, t) THEN [ls |-> clearAuth(ls), ret |-> TRUE]
  ELSE [ls |-> ls, ret |-> FALSE]

\* authHeaders(): the headers it builds (null for a header it leaves out)
authHeaders(ls) ==
  LET token == getToken(ls)
      cid == ensureClientId(ls).clientId
      uid == getUserId(ls)
  IN [Authorization |-> IF token # "" THEN token ELSE Null,
      XClientId |-> IF cid # "" THEN cid ELSE Null,
      XUserId |-> IF uid.kind # "null" THEN String(uid.val) ELSE NullStr]

(* ------------------------------------------------------------------ *)
(* State                                                              *)
(* ------------------------------------------------------------------ *)
VARIABLES
  now,        \* Date.now(), in milliseconds
  ticks,      \* number of clock steps taken (bounded by MaxTicks)
  ls,         \* localStorage: role, token, user_id, last_active_at, clientId
  lapsed,     \* history: more than INACTIVITY_TIMEOUT_MS has passed since the
              \* last recorded activity of the session in progress
  checked,    \* the last step ran MyApp.check
  expired,    \* `expired` of MyApp.check when the last step ran it
  page,       \* the page component mounted ("closed": no document loaded)
  navRole,    \* NavBar: role state
  addRole,    \* AddPage: role state
  submitting, \* AddPage: submitting state (an upload request is in flight)
  done,       \* AddPage: done state (null or the error shown)
  upload,     \* the /publications/upload request in flight, or null
  form,           \* history: the form that the last step submitted, if it did
  adminToken, \* AdminPage: token state
  status,     \* AdminPage: status filter
  items,      \* AdminPage: the publication list
  loading,    \* AdminPage: loading state
  error,      \* AdminPage: error state (null or the message)
  rejectId,   \* AdminPage: publication of the open reject dialog, or null (0)
  rejectNote, \* AdminPage: text of the reject dialog
  adminReqs,  \* AdminPage: the requests in flight
  adminEvent, \* history: the answer to approve, delete or reject that the last
              \* step delivered to AdminPage, and whether it called alert()
  pubs,       \* the ids of the publications the backend holds
  homeMounted,  \* HomePage: its effects have run
  homeQ,        \* HomePage: q state
  homePage,     \* HomePage: page state
  homeSort,     \* HomePage: sort state
  homeLoading,  \* HomePage: loading state
  homeData,     \* HomePage: data state (the response displayed)
  searches,     \* HomePage: the /search requests in flight, in issue order
  dataPos,      \* history: how many requests in flight were issued before
                \* the request whose response is displayed
  staleShown,   \* history: the response displayed overwrote the results
                \* of a request issued later for other parameters
  homeEvent,    \* history: the HomePage handler or answer of the last step
  afterReset,   \* history: "pending" since Reset was pressed with no request in
                \* flight, while every answer is OK and no other handler runs
  facetMounted, \* FacetMultiSelect: "no" before its effects, "yes", "gone" after unmount
  endpoint,     \* FacetMultiSelect: endpoint prop
  params,       \* FacetMultiSelect: params prop (the parent's filters)
  facetQ,       \* FacetMultiSelect: q state
  facetItems,   \* FacetMultiSelect: items state, with the request they came from
  facetLoading, \* FacetMultiSelect: loading state
  facetError,   \* FacetMultiSelect: error state
  facetReqs,    \* FacetMultiSelect: requests in flight with their `active` flag
  facetOutcome, \* history: what the last step delivered to the component
  authorsMounted, \* AuthorsPage: its effects have run
  authorsQ,       \* AuthorsPage: q state
  debounced,      \* AuthorsPage: useDebounced(q, 300)
  timer,          \* useDebounced: the pending timeout (value, time left) or none
  idle,           \* history: time since q last changed, up to the debounce delay
  authorsItems,   \* AuthorsPage: items state, with the query they came from
  authorsLoading, \* AuthorsPage: loading state
  authorsReqs,    \* AuthorsPage: the facet requests in flight
  badgeFile,      \* SourceBadge: the source file of the component rendered last
  badgeProps,     \* SourceBadge: the props of the last render
  badge,          \* SourceBadge: what detectBadge returned and the span shows
  mineMounted,    \* MyPublicationsPage: its effect has run
  mineItems,      \* MyPublicationsPage: items state
  mineLoading,    \* MyPublicationsPage: loading state
  editId,         \* MyPublicationsPage: editId state, or null (0)
  saving,         \* MyPublicationsPage: saving state
  saveErr,        \* MyPublicationsPage: saveErr state
  mineReqs        \* MyPublicationsPage: the requests in flight

sessionVars == <<now, ticks, ls, lapsed, checked, expired, page, navRole>>
addVars == <<addRole, submitting, done, upload>>
adminVars == <<adminToken, status, items, loading, error, rejectId, rejectNote, adminReqs>>
homeVars == <<homeMounted, homeQ, homePage, homeSort, homeLoading, homeData, searches,
              dataPos, staleShown, homeEvent, afterReset>>
facetVars == <<facetMounted, endpoint, params, facetQ, facetItems, facetLoading, facetError,
               facetReqs, facetOutcome>>
authorsVars == <<authorsMounted, authorsQ, debounced, timer, idle, authorsItems,
                 authorsLoading, authorsReqs>>
badgeVars == <<badgeFile, badgeProps, badge>>
mineVars == <<mineMounted, mineItems, mineLoading, editId, saving, saveErr, mineReqs>>
vars == <<now, ticks, ls, lapsed, checked, expired, page, navRole,
          addRole, submitting, done, upload, form,
          adminToken, status, items, loading, error, rejectId, rejectNote, adminReqs, adminEvent, pubs,
          homeMounted, homeQ, homePage, homeSort, homeLoading, homeData, searches,
          dataPos, staleShown, homeEvent, afterReset,
          facetMounted, endpoint, params, facetQ, facetItems, facetLoading, facetError,
          facetReqs, facetOutcome,
          authorsMounted, authorsQ, debounced, timer, idle, authorsItems, authorsLoading,
          authorsReqs, badgeFile, badgeProps, badge,
          mineMounted, mineItems, mineLoading, editId, saving, saveErr, mineReqs>>

Now0 == 100000000
TickSteps == {1, INACTIVITY_TIMEOUT_MS}

Pages == {"home", "login", "add", "admin", "mine"}

\* What the browser may hold under last_active_at when the site is opened
InitStamps == {NullStr, <<>>, <<" ">>, <<"x">>, InfinityStr, String(Now0)}

NoRequest == [kind |-> "none"]

\* AdminPage: the last step delivered no answer to approve, delete or reject
NoAdminEvent == [answer |-> "none", alert |-> FALSE]

\* AddPage: the last step submitted no form
NoForm ==
  [uploadSource |-> "none", authors |-> <<>>, file |-> FALSE, kokUrl |-> FALSE,
   docType |-> FALSE, publishedDate |-> FALSE, kokLang |-> FALSE]

\* useDebounced: no timeout is pending
NoTimer == [armed |-> FALSE, value |-> <<>>, left |-> 0]

\* FacetMultiSelect: useState<FacetItem[]>([]), before any answer
NoItems == [rows |-> 0, endpoint |-> "", qs |-> <<"", <<>>>>]

\* SourceBadge: props that are all undefined, and no span rendered yet
NoProps == [name |-> NullStr, type |-> NullStr, docType |-> NullStr, uploadSource |-> NullStr]
NoBadge == [label |-> <<>>, text |-> <<>>, title |-> NullStr]

\* HomePage: the state a fetchData closure reads, and data === null
HomeState(q, p, srt) == [q |-> q, page |-> p, sort |-> srt]
InitialHome == HomeState("", 1, "year_desc")
NoData == [loaded |-> FALSE, params |-> InitialHome]
Undefined == [kind |-> "undefined", val |-> 0]

\* The token the server issues at /auth/login for an account of this role
TokenOf(role) == "tok-" \o role

\* Nothing is loaded yet: every component state has its useState default
InitPages ==
  /\ now = Now0
  /\ ticks = 0
  /\ lapsed = FALSE
  /\ checked = FALSE
  /\ expired = FALSE
  /\ page = "closed"
  /\ navRole = "guest"
  /\ addRole = "guest"
  /\ submitting = FALSE
  /\ done = Null
  /\ upload = NoRequest
  /\ form = NoForm
  /\ adminToken = ""
  /\ status = "pending"
  /\ items = <<>>
  /\ loading = FALSE
  /\ error = Null
  /\ rejectId = 0
  /\ rejectNote = ""
  /\ adminReqs = {}
  /\ adminEvent = NoAdminEvent
  /\ homeMounted = FALSE
  /\ homeQ = ""
  /\ homePage = 1
  /\ homeSort = "year_desc"
  /\ homeLoading = FALSE
  /\ homeData = NoData
  /\ searches = <<>>
  /\ dataPos = 0
  /\ staleShown = FALSE
  /\ homeEvent = "none"
  /\ afterReset = "none"
  /\ facetMounted = "no"
  /\ endpoint = "authors"
  /\ params = "all"
  /\ facetQ = <<>>
  /\ facetItems = NoItems
  /\ facetLoading = FALSE
  /\ facetError = ""
  /\ facetReqs = <<>>
  /\ facetOutcome = "none"
  /\ authorsMounted = FALSE
  /\ authorsQ = <<>>
  /\ debounced = <<>>
  /\ timer = NoTimer
  /\ idle = 0
  /\ authorsItems = [loaded |-> FALSE, query |-> <<>>]
  /\ authorsLoading = FALSE
  /\ authorsReqs = <<>>
  /\ badgeFile = "none"
  /\ badgeProps = NoProps
  /\ badge = NoBadge
  /\ mineMounted = FALSE
  /\ mineItems = <<>>
  /\ mineLoading = FALSE
  /\ editId = 0
  /\ saving = FALSE
  /\ saveErr = Null
  /\ mineReqs = {}

\* A browser that never held a session opens the site
Init ==
  /\ InitPages
  /\ ls \in [role : {Null}, token : {Null}, user_id : {NullStr},
             last_active_at : InitStamps, clientId : {Null}]
  /\ pubs = {1}

(* ------------------------------------------------------------------ *)
(* Clock                                                              *)
(* ------------------------------------------------------------------ *)
\* More than the timeout separates time t from the activity recorded in ls
Lapsed(l, t) ==
  /\ ~FalsyStr(l.last_active_at)
  /\ Number(l.last_active_at).kind = "number"
  /\ t - Number(l.last_active_at).val > INACTIVITY_TIMEOUT_MS

Tick(d) ==
  /\ ticks < MaxTicks
  /\ ticks' = ticks + 1
  /\ now' = now + d
  /\ lapsed' = (lapsed \/ Lapsed(ls, now + d))
  /\ checked' = FALSE
  /\ UNCHANGED <<pubs, badgeVars, mineVars, homeVars, facetVars, authorsVars>>
  /\ adminEvent' = NoAdminEvent
  /\ expired' = FALSE
  /\ UNCHANGED <<ls, page, navRole>>
  /\ UNCHANGED addVars
  /\ form' = NoForm
  /\ UNCHANGED adminVars

(* ------------------------------------------------------------------ *)
(* pages/_app.tsx (MyApp), components/NavBar.tsx, pages/login.tsx     *)
(* ------------------------------------------------------------------ *)
\* AddPage mount effect: setRole(localStorage.getItem('role') || 'guest')
AddPageMount(l) == IF Falsy(l.role) THEN "guest" ELSE l.role

\* The /admin/publications request of fetchList
ListRequest(token, st) == [kind |-> "list", token |-> token, status |-> st, id |-> 0, note |-> Null]

\* AdminPage mount: the saved token is loaded and, when there is one, the
\* effect on [token, status] calls fetchList
AdminPageMount(l) ==
  /\ adminToken' = getToken(l)
  /\ status' = "pending"
  /\ items' = <<>>
  /\ error' = Null
  /\ rejectId' = 0
  /\ rejectNote' = ""
  /\ loading' = (getToken(l) # "")
  /\ adminReqs' = IF getToken(l) # "" THEN {ListRequest(getToken(l), "pending")} ELSE {}

AdminPageUnmount ==
  /\ adminToken' = ""
  /\ status' = "pending"
  /\ items' = <<>>
  /\ error' = Null
  /\ rejectId' = 0
  /\ rejectNote' = ""
  /\ loading' = FALSE
  /\ adminReqs' = {}

\* The state the page component p takes when it mounts over storage l
MountPage(p, l) ==
  /\ IF p = "admin" THEN AdminPageMount(l) ELSE AdminPageUnmount
  /\ addRole' = IF p = "add" THEN AddPageMount(l) ELSE "guest"
  /\ submitting' = FALSE
  /\ done' = Null
  /\ upload' = IF upload = NoRequest \/ p = "closed" THEN NoRequest
               ELSE [upload EXCEPT !.detached = TRUE]
  /\ form' = NoForm

\* A document load of page p: the effects of NavBar and of the page component
\* run first, then MyApp's effect registers the listeners and runs check().
PageLoad(p) ==
  /\ page = "closed"
  /\ page' = p
  /\ navRole' = getRole(ls)
  /\ MountPage(p, ls)
  /\ LET r == maybeExpireSession(ls, now) IN
       /\ ls' = r.ls
       /\ expired' = r.ret
  /\ checked' = TRUE
  /\ UNCHANGED <<pubs, badgeVars, mineVars, homeVars, facetVars, authorsVars>>
  /\ adminEvent' = NoAdminEvent
  /\ lapsed' = FALSE
  /\ UNCHANGED <<now, ticks>>

\* The interval callback of MyApp
IntervalCheck ==
  /\ page # "closed"
  /\ LET r == maybeExpireSession(ls, now) IN
       /\ ls' = r.ls
       /\ expired' = r.ret
  /\ checked' = TRUE
  /\ UNCHANGED <<pubs, badgeVars, mineVars, homeVars, facetVars, authorsVars>>
  /\ adminEvent' = NoAdminEvent
  /\ lapsed' = FALSE
  /\ UNCHANGED <<now, ticks, page, navRole>>
  /\ UNCHANGED addVars
  /\ form' = NoForm
  /\ UNCHANGED adminVars

\* click, keydown, mousemove, scroll, touchstart or visibilitychange
Activity ==
  /\ page # "closed"
  /\ ls' = markActivity(ls, now)
  /\ checked' = FALSE
  /\ UNCHANGED <<pubs, badgeVars, mineVars, homeVars, facetVars, authorsVars>>
  /\ adminEvent' = NoAdminEvent
  /\ expired' = FALSE
  /\ UNCHANGED <<now, ticks, lapsed, page, navRole>>
  /\ UNCHANGED addVars
  /\ form' = NoForm
  /\ UNCHANGED adminVars

\* The NavBar links that are rendered for the NavBar's role state
LinkShown(p) ==
  CASE p = "home" -> TRUE
    [] p = "add" -> navRole # "guest"
    [] p = "mine" -> navRole \in {"user", "teacher", "student"}
    [] p = "admin" -> navRole = "admin"
    [] p = "login" -> navRole = "guest"

\* A click on a NavBar link: client-side navigation, MyApp stays mounted
Navigate(p) ==
  /\ page # "closed"
  /\ p # page
  /\ LinkShown(p)
  /\ page' = p
  /\ ls' = markActivity(ls, now)
  /\ MountPage(p, ls)
  /\ checked' = FALSE
  /\ UNCHANGED <<pubs, badgeVars, mineVars, homeVars, facetVars, authorsVars>>
  /\ adminEvent' = NoAdminEvent
  /\ expired' = FALSE
  /\ UNCHANGED <<now, ticks, lapsed, navRole>>

\* The tab is closed (or the document is left)
CloseTab ==
  /\ page # "closed"
  /\ page' = "closed"
  /\ checked' = FALSE
  /\ UNCHANGED <<pubs, badgeVars, mineVars, homeVars, facetVars, authorsVars>>
  /\ adminEvent' = NoAdminEvent
  /\ expired' = FALSE
  /\ MountPage("closed", ls)
  /\ UNCHANGED <<now, ticks, ls, lapsed, navRole>>

\* LoginPage.onSubmit when /auth/login answers OK with this role
Login(role) ==
  /\ page = "login"
  /\ ls' = ensureClientId(setAuth(ls, now, role, TokenOf(role), Undefined))
  /\ lapsed' = FALSE
  /\ page' = "closed"
  /\ checked' = FALSE
  /\ UNCHANGED <<pubs, badgeVars, mineVars, homeVars, facetVars, authorsVars>>
  /\ adminEvent' = NoAdminEvent
  /\ expired' = FALSE
  /\ MountPage("closed", ls)
  /\ UNCHANGED <<now, ticks, navRole>>

\* The NavBar logout button
Logout ==
  /\ page # "closed"
  /\ navRole # "guest"
  /\ ls' = clearAuth(markActivity(ls, now))
  /\ navRole' = "guest"
  /\ page' = "closed"
  /\ checked' = FALSE
  /\ UNCHANGED <<pubs, badgeVars, mineVars, homeVars, facetVars, authorsVars>>
  /\ adminEvent' = NoAdminEvent
  /\ expired' = FALSE
  /\ MountPage("closed", ls)
  /\ UNCHANGED <<now, ticks, lapsed>>

(* ------------------------------------------------------------------ *)
(* pages/add.tsx (AddPage)                                            *)
(* ------------------------------------------------------------------ *)
\* A word of an author item: its length and whether it has a Latin or
\* Cyrillic letter
Word(n, l) == [len |-> n, letter |-> l]

\* authors.split(';').map(trim).filter(Boolean), each item split into words
AuthorsInputs ==
  { <<>>,
    << <<Word(4, TRUE), Word(6, TRUE)>> >>,
    << <<Word(4, TRUE)>> >>,
    << <<Word(1, TRUE), Word(6, TRUE)>> >>,
    << <<Word(4, TRUE), Word(6, TRUE)>>, <<Word(2, FALSE), Word(3, TRUE)>> >> }

\* The `bad` test of onSubmit for one author item
BadAuthor(parts) ==
  IF Len(parts) < 2 THEN TRUE
  ELSE LET firstOk == parts[1].len >= 2 /\ parts[1].letter
           lastOk == parts[2].len >= 2 /\ parts[2].letter
       IN ~(firstOk /\ lastOk)

Forms ==
  [uploadSource : {"scopus", "article"}, authors : AuthorsInputs, file : BOOLEAN,
   kokUrl : BOOLEAN, docType : BOOLEAN, publishedDate : BOOLEAN, kokLang : BOOLEAN]

\* The checks of onSubmit without the one of the publication date
\* (mutant: a check of the article branch is left out)
FormError_noDate(f) ==
  \/ f.authors = <<>>
  \/ \E i \in 1..Len(f.authors) : BadAuthor(f.authors[i])
  \/ f.uploadSource # "scopus" /\ ~f.file
  \/ /\ f.uploadSource = "article"
     /\ (~f.kokUrl \/ ~f.docType \/ ~f.kokLang)

\* The checks of onSubmit that throw before the request is built
FormError(f) ==
  \/ f.authors = <<>>
  \/ \E i \in 1..Len(f.authors) : BadAuthor(f.authors[i])
  \/ f.uploadSource # "scopus" /\ ~f.file
  \/ /\ f.uploadSource = "article"
     /\ (~f.kokUrl \/ ~f.docType \/ ~f.publishedDate \/ ~f.kokLang)

\* The fields of the FormData that onSubmit sends
FormData(f) ==
  [upload_source |-> f.uploadSource,
   file |-> f.file,
   url |-> f.uploadSource = "article" /\ f.kokUrl,
   doc_type |-> f.uploadSource = "article" /\ f.docType,
   published_date |-> f.uploadSource = "article" /\ f.publishedDate,
   language |-> f.uploadSource = "article" /\ f.kokLang]

\* The submit button is enabled
CanSubmit == page = "add" /\ ~submitting /\ addRole # "guest"

\* AddPage.onSubmit up to its await: the checks, then the upload request
AddSubmit(f) ==
  /\ CanSubmit
  /\ form' = f
  /\ IF FormError(f)
       THEN /\ done' = "error"
            /\ submitting' = FALSE
            /\ upload' = upload
            /\ ls' = markActivity(ls, now)
       ELSE /\ done' = Null
            /\ submitting' = TRUE
            /\ ls' = ensureClientId(markActivity(ls, now))
            /\ upload' = [kind |-> "upload", detached |-> FALSE, body |-> FormData(f),
                          headers |-> authHeaders(ensureClientId(ls))]
  /\ checked' = FALSE
  /\ UNCHANGED <<pubs, badgeVars, mineVars, homeVars, facetVars, authorsVars>>
  /\ adminEvent' = NoAdminEvent
  /\ expired' = FALSE
  /\ UNCHANGED <<now, ticks, lapsed, page, navRole, addRole>>
  /\ UNCHANGED adminVars

\* The rest of onSubmit, when the upload request is answered
AddUploadResponse(ok) ==
  /\ upload # NoRequest
  /\ upload' = NoRequest
  /\ form' = NoForm
  /\ IF ok
       THEN /\ page' = "mine"
            /\ addRole' = "guest"
            /\ submitting' = FALSE
            /\ done' = Null
            /\ AdminPageUnmount
       ELSE /\ page' = page
            /\ addRole' = addRole
            /\ submitting' = IF upload.detached THEN submitting ELSE FALSE
            /\ done' = IF upload.detached THEN done ELSE "error"
            /\ UNCHANGED adminVars
  /\ checked' = FALSE
  /\ UNCHANGED <<pubs, badgeVars, mineVars, homeVars, facetVars, authorsVars>>
  /\ adminEvent' = NoAdminEvent
  /\ expired' = FALSE
  /\ UNCHANGED <<now, ticks, ls, lapsed, navRole>>

(* ------------------------------------------------------------------ *)
(* pages/admin.tsx (AdminPage): publication moderation                *)
(* ------------------------------------------------------------------ *)
Statuses == {"pending", "approved", "rejected"}
PubIds == {1, 2}
NoteTexts == {"", "n"}

\* rejectNote || null
NoteOrNull(n) == IF n = "" THEN Null ELSE n

\* The publications the server may return for the status filter st
ServerPubs(st) ==
  { p \in [id : pubs, status : Statuses, note : {Null, "n"}] :
      /\ st # "" => p.status = st
      /\ p.note # Null => p.status = "rejected" }

ServerLists(st) ==
  {<<>>} \cup { <<p>> : p \in ServerPubs(st) }
         \cup { pq \in ServerPubs(st) \X ServerPubs(st) : pq[1].id < pq[2].id }

\* The backend answers OK only to a request that carries an administrator's token
ServerAccepts(req) == req.token = TokenOf("admin")

ItemIds == { items[i].id : i \in 1..Len(items) }

\* StatusAfter with the request kind written where the status belongs
StatusAfter_kind(kind) == kind

\* The status that a successful approve or reject writes into the list
StatusAfter(kind) == IF kind = "approve" THEN "approved" ELSE "rejected"

\* prev.map that rewrites every publication of the list
MapStatus_all(list, pubId, st, note) ==
  [i \in 1..Len(list) |-> [list[i] EXCEPT !.status = st, !.note = note]]

\* prev.map(p => p.id === pubId ? { ...p, status, note } : p)
MapStatus(list, pubId, st, note) ==
  [i \in 1..Len(list) |->
     IF list[i].id = pubId THEN [list[i] EXCEPT !.status = st, !.note = note] ELSE list[i]]

\* prev.filter(p => p.id !== pubId)
RECURSIVE FilterOut(_, _)
FilterOut(list, pubId) ==
  IF list = <<>> THEN <<>>
  ELSE IF Head(list).id = pubId THEN FilterOut(Tail(list), pubId)
  ELSE <<Head(list)>> \o FilterOut(Tail(list), pubId)

\* fetchList up to its await (the buttons that call it, or the effect)
fetchList(st) ==
  IF adminToken = ""
    THEN UNCHANGED <<loading, error, adminReqs>>
    ELSE /\ loading' = TRUE
         /\ error' = Null
         /\ adminReqs' = adminReqs \cup {ListRequest(adminToken, st)}

AdminFetchList ==
  /\ page = "admin"
  /\ rejectId = 0
  /\ Cardinality(adminReqs) < MaxInFlight
  /\ fetchList(status)
  /\ ls' = markActivity(ls, now)
  /\ checked' = FALSE
  /\ UNCHANGED <<pubs, badgeVars, mineVars, homeVars, facetVars, authorsVars>>
  /\ adminEvent' = NoAdminEvent
  /\ expired' = FALSE
  /\ UNCHANGED <<now, ticks, lapsed, page, navRole>>
  /\ UNCHANGED <<adminToken, status, items, rejectId, rejectNote>>
  /\ UNCHANGED addVars
  /\ form' = NoForm

\* The status select: setStatus, then the effect on [token, status]
AdminSetStatus(st) ==
  /\ page = "admin"
  /\ rejectId = 0
  /\ st # status
  /\ Cardinality(adminReqs) < MaxInFlight
  /\ status' = st
  /\ fetchList(st)
  /\ ls' = markActivity(ls, now)
  /\ checked' = FALSE
  /\ UNCHANGED <<pubs, badgeVars, mineVars, homeVars, facetVars, authorsVars>>
  /\ adminEvent' = NoAdminEvent
  /\ expired' = FALSE
  /\ UNCHANGED <<now, ticks, lapsed, page, navRole>>
  /\ UNCHANGED <<adminToken, items, rejectId, rejectNote>>
  /\ UNCHANGED addVars
  /\ form' = NoForm

\* The rest of fetchList, when the list request req is answered
AdminListResponse(req, ok, data) ==
  /\ req \in adminReqs
  /\ req.kind = "list"
  /\ ok => ServerAccepts(req)
  /\ data \in ServerLists(req.status)
  /\ adminReqs' = adminReqs \ {req}
  /\ IF ok
       THEN /\ items' = data
            /\ error' = error
       ELSE /\ items' = items
            /\ error' = "error"
  /\ loading' = FALSE
  /\ checked' = FALSE
  /\ UNCHANGED <<pubs, badgeVars, mineVars, homeVars, facetVars, authorsVars>>
  /\ adminEvent' = NoAdminEvent
  /\ expired' = FALSE
  /\ UNCHANGED <<now, ticks, ls, lapsed, page, navRole>>
  /\ UNCHANGED <<adminToken, status, rejectId, rejectNote>>
  /\ UNCHANGED addVars
  /\ form' = NoForm

\* action(pubId, kind) up to its await: the buttons of a row of the list
action(pubId, kind) ==
  /\ page = "admin"
  /\ ~loading
  /\ rejectId = 0
  /\ pubId \in ItemIds
  /\ Cardinality(adminReqs) < MaxInFlight
  /\ IF adminToken = ""
       THEN UNCHANGED <<rejectId, rejectNote, adminReqs>>
       ELSE IF kind = "reject"
         THEN /\ rejectId' = pubId
              /\ rejectNote' = ""
              /\ adminReqs' = adminReqs
         ELSE /\ adminReqs' = adminReqs \cup
                    {[kind |-> kind, token |-> adminToken, status |-> "", id |-> pubId, note |-> Null]}
              /\ UNCHANGED <<rejectId, rejectNote>>
  /\ ls' = markActivity(ls, now)
  /\ checked' = FALSE
  /\ UNCHANGED <<pubs, badgeVars, mineVars, homeVars, facetVars, authorsVars>>
  /\ adminEvent' = NoAdminEvent
  /\ expired' = FALSE
  /\ UNCHANGED <<now, ticks, lapsed, page, navRole>>
  /\ UNCHANGED <<adminToken, status, items, loading, error>>
  /\ UNCHANGED addVars
  /\ form' = NoForm

\* The rest of action, when the approve or delete request req is answered
AdminActionResponse(req, ok) ==
  /\ req \in adminReqs
  /\ req.kind \in {"approve", "delete"}
  /\ ok => ServerAccepts(req)
  /\ adminReqs' = adminReqs \ {req}
  /\ items' = IF ~ok THEN items
              ELSE IF req.kind = "approve" THEN MapStatus(items, req.id, StatusAfter(req.kind), Null)
              ELSE FilterOut(items, req.id)
  /\ adminEvent' = [answer |-> IF ok THEN "ok" ELSE "fail", alert |-> ~ok]
  /\ checked' = FALSE
  /\ UNCHANGED <<pubs, badgeVars, mineVars, homeVars, facetVars, authorsVars>>
  /\ expired' = FALSE
  /\ UNCHANGED <<now, ticks, ls, lapsed, page, navRole>>
  /\ UNCHANGED <<adminToken, status, loading, error, rejectId, rejectNote>>
  /\ UNCHANGED addVars
  /\ form' = NoForm

\* Typing in the textarea of the reject dialog
AdminSetRejectNote(n) ==
  /\ page = "admin"
  /\ rejectId # 0
  /\ n # rejectNote
  /\ rejectNote' = n
  /\ ls' = markActivity(ls, now)
  /\ checked' = FALSE
  /\ UNCHANGED <<pubs, badgeVars, mineVars, homeVars, facetVars, authorsVars>>
  /\ adminEvent' = NoAdminEvent
  /\ expired' = FALSE
  /\ UNCHANGED <<now, ticks, lapsed, page, navRole>>
  /\ UNCHANGED <<adminToken, status, items, loading, error, rejectId, adminReqs>>
  /\ UNCHANGED addVars
  /\ form' = NoForm

\* The Cancel button of the reject dialog
AdminCancelReject ==
  /\ page = "admin"
  /\ rejectId # 0
  /\ rejectId' = 0
  /\ rejectNote' = ""
  /\ ls' = markActivity(ls, now)
  /\ checked' = FALSE
  /\ UNCHANGED <<pubs, badgeVars, mineVars, homeVars, facetVars, authorsVars>>
  /\ adminEvent' = NoAdminEvent
  /\ expired' = FALSE
  /\ UNCHANGED <<now, ticks, lapsed, page, navRole>>
  /\ UNCHANGED <<adminToken, status, items, loading, error, adminReqs>>
  /\ UNCHANGED addVars
  /\ form' = NoForm

\* submitReject up to its await: the Save button of the reject dialog
submitReject ==
  /\ page = "admin"
  /\ rejectId # 0
  /\ Cardinality(adminReqs) < MaxInFlight
  /\ adminReqs' = IF adminToken = "" THEN adminReqs
                  ELSE adminReqs \cup
                    {[kind |-> "reject", token |-> adminToken, status |-> "", id |-> rejectId,
                      note |-> rejectNote]}
  /\ ls' = markActivity(ls, now)
  /\ checked' = FALSE
  /\ UNCHANGED <<pubs, badgeVars, mineVars, homeVars, facetVars, authorsVars>>
  /\ adminEvent' = NoAdminEvent
  /\ expired' = FALSE
  /\ UNCHANGED <<now, ticks, lapsed, page, navRole>>
  /\ UNCHANGED <<adminToken, status, items, loading, error, rejectId, rejectNote>>
  /\ UNCHANGED addVars
  /\ form' = NoForm

\* The dialog is closed whatever the answer
DialogAfter_close(ok, id, note) == [id |-> 0, note |-> ""]

\* The reject dialog after the answer: submitReject returns before
\* setRejectId(null); setRejectNote('') when the answer is not OK
DialogAfter(ok, id, note) ==
  IF ok THEN [id |-> 0, note |-> ""] ELSE [id |-> id, note |-> note]

\* The body of the reject request: JSON.stringify({ note: rejectNote || null })
RejectBody_raw(req) == [note |-> req.note]

RejectBody(req) == [note |-> NoteOrNull(req.note)]

\* The rest of submitReject, when the reject request req is answered
AdminRejectResponse(req, ok) ==
  /\ req \in adminReqs
  /\ req.kind = "reject"
  /\ ok => ServerAccepts(req)
  /\ adminReqs' = adminReqs \ {req}
  /\ items' = IF ok THEN MapStatus(items, req.id, StatusAfter(req.kind), NoteOrNull(req.note))
              ELSE items
  /\ rejectId' = DialogAfter(ok, rejectId, rejectNote).id
  /\ rejectNote' = DialogAfter(ok, rejectId, rejectNote).note
  /\ adminEvent' = [answer |-> IF ok THEN "ok" ELSE "fail", alert |-> ~ok]
  /\ checked' = FALSE
  /\ UNCHANGED <<pubs, badgeVars, mineVars, homeVars, facetVars, authorsVars>>
  /\ expired' = FALSE
  /\ UNCHANGED <<now, ticks, ls, lapsed, page, navRole>>
  /\ UNCHANGED <<adminToken, status, loading, error>>
  /\ UNCHANGED addVars
  /\ form' = NoForm

NextSession ==
  \/ \E d \in TickSteps : Tick(d)
  \/ \E p \in Pages : PageLoad(p)
  \/ IntervalCheck
  \/ Activity
  \/ \E p \in Pages : Navigate(p)
  \/ CloseTab
  \/ \E r \in {"user", "admin"} : Login(r)
  \/ Logout

NextAdmin ==
  \/ AdminFetchList
  \/ \E st \in Statuses \cup {""} : AdminSetStatus(st)
  \/ \E req \in adminReqs, ok \in BOOLEAN :
       \E data \in (IF ok THEN ServerLists(req.status) ELSE {<<>>}) : AdminListResponse(req, ok, data)
  \/ \E pubId \in PubIds, kind \in {"approve", "reject", "delete"} : action(pubId, kind)
  \/ \E req \in adminReqs, ok \in BOOLEAN : AdminActionResponse(req, ok)
  \/ \E n \in NoteTexts : AdminSetRejectNote(n)
  \/ AdminCancelReject
  \/ submitReject
  \/ \E req \in adminReqs, ok \in BOOLEAN : AdminRejectResponse(req, ok)

NextAdd ==
  \/ \E f \in Forms : AddSubmit(f)
  \/ \E ok \in BOOLEAN : AddUploadResponse(ok)

\* The forms submitted while the session is followed: the article parts are
\* all given or all missing
SessionForms ==
  {f \in Forms : /\ Len(f.authors) <= 1
                 /\ \A i \in 1..Len(f.authors) : ~BadAuthor(f.authors[i])
                 /\ f.kokUrl = f.file /\ f.docType = f.file
                 /\ f.publishedDate = f.file /\ f.kokLang = f.file}

Next ==
  \/ NextSession
  \/ \E f \in SessionForms : AddSubmit(f)
  \/ \E ok \in BOOLEAN : AddUploadResponse(ok)

\* The session, the inactivity tracker and the add-publication page
Spec == Init /\ [][Next]_vars

\* A browser in which the site has never recorded an activity
InitFresh == Init /\ ls.last_active_at = NullStr

\* A user logs in and fills in the add-publication form
SpecAdd ==
  InitFresh /\ [][PageLoad("login") \/ Login("user") \/ PageLoad("add") \/ NextAdd]_vars

NextAdminSession ==
  \/ Tick(INACTIVITY_TIMEOUT_MS + 1)
  \/ \E p \in Pages : PageLoad(p)
  \/ IntervalCheck
  \/ Activity
  \/ \E p \in Pages : Navigate(p)
  \/ CloseTab
  \/ \E r \in {"user", "admin"} : Login(r)
  \/ Logout

SpecAdmin == InitFresh /\ [][NextAdminSession \/ NextAdmin]_vars

\* The moderation page of an administrator, just mounted, over two publications
InitModeration ==
  /\ now = Now0
  /\ ticks = 0
  /\ lapsed = FALSE
  /\ checked = FALSE
  /\ expired = FALSE
  /\ ls = ensureClientId(setAuth([role |-> Null, token |-> Null, user_id |-> NullStr,
                                  last_active_at |-> NullStr, clientId |-> Null],
                                 Now0, "admin", TokenOf("admin"), Undefined))
  /\ page = "admin"
  /\ navRole = "admin"
  /\ addRole = "guest"
  /\ submitting = FALSE
  /\ done = Null
  /\ upload = NoRequest
  /\ form = NoForm
  /\ adminToken = TokenOf("admin")
  /\ status = "pending"
  /\ items = <<>>
  /\ loading = TRUE
  /\ error = Null
  /\ rejectId = 0
  /\ rejectNote = ""
  /\ adminReqs = {ListRequest(TokenOf("admin"), "pending")}
  /\ adminEvent = NoAdminEvent
  /\ pubs = PubIds
  /\ homeMounted = FALSE
  /\ homeQ = ""
  /\ homePage = 1
  /\ homeSort = "year_desc"
  /\ homeLoading = FALSE
  /\ homeData = NoData
  /\ searches = <<>>
  /\ dataPos = 0
  /\ staleShown = FALSE
  /\ homeEvent = "none"
  /\ afterReset = "none"
  /\ facetMounted = "no"
  /\ endpoint = "authors"
  /\ params = "all"
  /\ facetQ = <<>>
  /\ facetItems = NoItems
  /\ facetLoading = FALSE
  /\ facetError = ""
  /\ facetReqs = <<>>
  /\ facetOutcome = "none"
  /\ authorsMounted = FALSE
  /\ authorsQ = <<>>
  /\ debounced = <<>>
  /\ timer = NoTimer
  /\ idle = 0
  /\ authorsItems = [loaded |-> FALSE, query |-> <<>>]
  /\ authorsLoading = FALSE
  /\ authorsReqs = <<>>
  /\ badgeFile = "none"
  /\ badgeProps = NoProps
  /\ badge = NoBadge
  /\ mineMounted = FALSE
  /\ mineItems = <<>>
  /\ mineLoading = FALSE
  /\ editId = 0
  /\ saving = FALSE
  /\ saveErr = Null
  /\ mineReqs = {}

SpecModeration == InitModeration /\ [][NextAdmin]_vars

(* ------------------------------------------------------------------ *)
(* pages/index.tsx (HomePage): search                                 *)
(* ------------------------------------------------------------------ *)
QueryTexts == {"", "a"}
SortKeys == {"year_desc", "title_asc"}
\* meta.total_pages of every answer of the backend
PageNumbers == {1, 2}
TotalPages == CHOOSE n \in PageNumbers : \A m \in PageNumbers : m <= n

HomeCurrent == HomeState(homeQ, homePage, homeSort)

Min(a, b) == IF a < b THEN a ELSE b
Max(a, b) == IF a > b THEN a ELSE b

\* fetchData up to its await, called once for each closure state of sts in
\* turn: setLoading(true) and one /search request with the state's values
fetchData(sts) ==
  /\ Len(searches) + Len(sts) <= MaxSearches
  /\ searches' = searches \o sts
  /\ homeLoading' = (sts # <<>> \/ homeLoading)

\* Mount: the effect on [page] and the effect on the filters both call
\* fetchData; the focus and visibility listeners keep the fetchData of this
\* first render
HomeMount ==
  /\ ~homeMounted
  /\ homeMounted' = TRUE
  /\ fetchData(<<InitialHome, InitialHome>>)
  /\ UNCHANGED <<homeQ, homePage, homeSort, homeData, dataPos, staleShown>>
  /\ homeEvent' = "mount" /\ afterReset' = "none"
  /\ UNCHANGED <<sessionVars, addVars, form, adminVars, adminEvent, pubs, badgeVars, mineVars, facetVars, authorsVars>>

\* Typing in the search box
HomeSetQ(v) ==
  /\ homeMounted
  /\ v # homeQ
  /\ homeQ' = v
  /\ UNCHANGED <<homeMounted, homePage, homeSort, homeLoading, homeData, searches,
                 dataPos, staleShown>>
  /\ homeEvent' = "type" /\ afterReset' = "none"
  /\ UNCHANGED <<sessionVars, addVars, form, adminVars, adminEvent, pubs, badgeVars, mineVars, facetVars, authorsVars>>

\* setPage(1); fetchData(): fetchData reads the state of the render it was
\* made in, then the effect on [page] calls the next render's fetchData
SetPage1AndFetch ==
  /\ homeMounted
  /\ homePage' = 1
  /\ fetchData(<<HomeCurrent>> \o
               (IF homePage # 1 THEN <<HomeState(homeQ, 1, homeSort)>> ELSE <<>>))
  /\ UNCHANGED <<homeMounted, homeQ, homeSort, homeData, dataPos, staleShown>>
  /\ UNCHANGED <<sessionVars, addVars, form, adminVars, adminEvent, pubs, badgeVars, mineVars, facetVars, authorsVars>>

\* The search form
HomeOnSubmit == SetPage1AndFetch /\ homeEvent' = "submit" /\ afterReset' = "none"

\* The Apply button
HomeApply == SetPage1AndFetch /\ homeEvent' = "apply" /\ afterReset' = "none"

\* The sort select: setSort, then the effect on the filters
HomeSetSort(v) ==
  /\ homeMounted
  /\ v # homeSort
  /\ homeSort' = v
  /\ fetchData(<<HomeState(homeQ, homePage, v)>>)
  /\ UNCHANGED <<homeMounted, homeQ, homePage, homeData, dataPos, staleShown>>
  /\ homeEvent' = "sort" /\ afterReset' = "none"
  /\ UNCHANGED <<sessionVars, addVars, form, adminVars, adminEvent, pubs, badgeVars, mineVars, facetVars, authorsVars>>

\* The Back button: enabled while the page of the displayed answer is > 1
HomePrev ==
  /\ homeMounted
  /\ homeData.loaded /\ homeData.params.page > 1
  /\ homePage' = Max(1, homePage - 1)
  /\ fetchData(IF Max(1, homePage - 1) # homePage
                 THEN <<HomeState(homeQ, Max(1, homePage - 1), homeSort)>> ELSE <<>>)
  /\ UNCHANGED <<homeMounted, homeQ, homeSort, homeData, dataPos, staleShown>>
  /\ homeEvent' = "prev" /\ afterReset' = "none"
  /\ UNCHANGED <<sessionVars, addVars, form, adminVars, adminEvent, pubs, badgeVars, mineVars, facetVars, authorsVars>>

\* The Forward button: enabled while the page of the displayed answer is
\* below its total_pages
HomeNext ==
  /\ homeMounted
  /\ homeData.loaded /\ homeData.params.page < TotalPages
  /\ homePage' = Min(TotalPages, homePage + 1)
  /\ fetchData(IF Min(TotalPages, homePage + 1) # homePage
                 THEN <<HomeState(homeQ, Min(TotalPages, homePage + 1), homeSort)>> ELSE <<>>)
  /\ UNCHANGED <<homeMounted, homeQ, homeSort, homeData, dataPos, staleShown>>
  /\ homeEvent' = "next" /\ afterReset' = "none"
  /\ UNCHANGED <<sessionVars, addVars, form, adminVars, adminEvent, pubs, badgeVars, mineVars, facetVars, authorsVars>>

\* The Reset button: the setters, fetchData() of the current render, then the
\* effect on [page] and the effect on the filters for what has changed
HomeReset ==
  /\ homeMounted
  /\ homeQ' = ""
  /\ homeSort' = "year_desc"
  /\ homePage' = 1
  /\ fetchData(<<HomeCurrent>>
               \o (IF homePage # 1 THEN <<InitialHome>> ELSE <<>>)
               \o (IF homeSort # "year_desc" THEN <<InitialHome>> ELSE <<>>))
  /\ UNCHANGED <<homeMounted, homeData, dataPos, staleShown>>
  /\ homeEvent' = "reset"
  /\ afterReset' = IF searches = <<>> THEN "pending" ELSE "none"
  /\ UNCHANGED <<sessionVars, addVars, form, adminVars, adminEvent, pubs, badgeVars, mineVars, facetVars, authorsVars>>

\* focus, or visibilitychange to visible: the listeners of the mount effect
\* call the fetchData of the first render
HomeFocus ==
  /\ homeMounted
  /\ fetchData(<<InitialHome>>)
  /\ UNCHANGED <<homeMounted, homeQ, homePage, homeSort, homeData, dataPos, staleShown>>
  /\ homeEvent' = "focus" /\ afterReset' = "none"
  /\ UNCHANGED <<sessionVars, addVars, form, adminVars, adminEvent, pubs, badgeVars, mineVars, facetVars, authorsVars>>

RemoveAt(seq, i) == SubSeq(seq, 1, i - 1) \o SubSeq(seq, i + 1, Len(seq))

\* The rest of fetchData, when the i-th request in flight is answered (ok) or
\* fails
HomeResponse(i, ok) ==
  /\ i \in 1..Len(searches)
  /\ searches' = RemoveAt(searches, i)
  /\ homeLoading' = FALSE
  /\ IF ok
       THEN /\ homeData' = [loaded |-> TRUE, params |-> searches[i]]
            /\ dataPos' = i - 1
            /\ staleShown' = (i <= dataPos /\ searches[i] # homeData.params)
       ELSE /\ homeData' = homeData
            /\ dataPos' = IF i <= dataPos THEN dataPos - 1 ELSE dataPos
            /\ staleShown' = staleShown
  /\ homeEvent' = IF ok THEN "ok" ELSE "fail"
  /\ afterReset' = IF ok THEN afterReset ELSE "none"
  /\ UNCHANGED <<homeMounted, homeQ, homePage, homeSort>>
  /\ UNCHANGED <<sessionVars, addVars, form, adminVars, adminEvent, pubs, badgeVars, mineVars, facetVars, authorsVars>>

\* The status line of the page: 'Загрузка…' while loading, the number of
\* publications found otherwise
HomeStatusLine == IF homeLoading THEN "loading" ELSE "found"

NextHome ==
  \/ HomeMount
  \/ \E v \in QueryTexts : HomeSetQ(v)
  \/ HomeOnSubmit
  \/ HomeApply
  \/ \E v \in SortKeys : HomeSetSort(v)
  \/ HomePrev
  \/ HomeNext
  \/ HomeReset
  \/ HomeFocus
  \/ \E i \in 1..Len(searches), ok \in BOOLEAN : HomeResponse(i, ok)

\* The home page alone
SpecHome == InitFresh /\ [][NextHome]_vars

(* ------------------------------------------------------------------ *)
(* components/FacetMultiSelect.tsx                                    *)
(* ------------------------------------------------------------------ *)
Endpoints == {"authors", "sources"}
\* The parent's filters, as they enter the query string
ParamSets == {"all", "year_min=2020"}
Keys == {"a", " "}

\* useMemo qs: the parent's params, then query = q.trim() when it is not empty
Qs(p, q) == <<p, Trim(q)>>

\* The answer of the backend to a facet request: RowCounts rows, or none
RowCounts == {0, 1}

\* setItems([]); setError('api_unreachable') of the catch
\* (mutant: the catch that sets the error only)
facetCatch_keepItems(req) == [items |-> facetItems, error |-> "api_unreachable"]

facetCatch(req) ==
  [items |-> [rows |-> 0, endpoint |-> req.endpoint, qs |-> req.qs],
   error |-> "api_unreachable"]

\* The cleanup of the previous effect: active = false
Deactivate(reqs) == [i \in 1..Len(reqs) |-> [reqs[i] EXCEPT !.active = FALSE]]

\* The effect on [endpoint, qs] without its cleanup test
\* (mutant: the effect whose cleanup does not reset `active`)
facetEffect_noCleanup(e, qs) ==
  /\ Len(facetReqs) < MaxFacetReqs
  /\ facetLoading' = TRUE
  /\ facetError' = ""
  /\ facetReqs' = Append(facetReqs, [endpoint |-> e, qs |-> qs, active |-> TRUE])

\* The effect on [endpoint, qs]: the cleanup of the previous run, then
\* setLoading(true), setError('') and the fetch
facetEffect(e, qs) ==
  /\ Len(facetReqs) < MaxFacetReqs
  /\ facetLoading' = TRUE
  /\ facetError' = ""
  /\ facetReqs' = Append(Deactivate(facetReqs), [endpoint |-> e, qs |-> qs, active |-> TRUE])

FacetMount ==
  /\ facetMounted = "no"
  /\ facetMounted' = "yes"
  /\ facetEffect(endpoint, Qs(params, facetQ))
  /\ facetOutcome' = "none"
  /\ UNCHANGED <<endpoint, params, facetQ, facetItems>>
  /\ UNCHANGED <<sessionVars, addVars, form, adminVars, adminEvent, pubs, badgeVars, mineVars, homeVars, authorsVars>>

\* The props or the text change: the effect runs again when endpoint or qs
\* is another string than at the last render
FacetRender(e, p, q) ==
  /\ facetMounted = "yes"
  /\ endpoint' = e
  /\ params' = p
  /\ facetQ' = q
  /\ IF e # endpoint \/ Qs(p, q) # Qs(params, facetQ)
       THEN facetEffect(e, Qs(p, q))
       ELSE UNCHANGED <<facetLoading, facetError, facetReqs>>
  /\ facetOutcome' = "none"
  /\ UNCHANGED <<facetMounted, facetItems>>
  /\ UNCHANGED <<sessionVars, addVars, form, adminVars, adminEvent, pubs, badgeVars, mineVars, homeVars, authorsVars>>

\* A key typed into the search input: onChange, setQ
FacetType(c) ==
  /\ Len(facetQ) < MaxQLen
  /\ FacetRender(endpoint, params, Append(facetQ, c))

\* Backspace in the search input
FacetBackspace ==
  /\ facetQ # <<>>
  /\ FacetRender(endpoint, params, SubSeq(facetQ, 1, Len(facetQ) - 1))

\* The parent passes other filters
FacetSetParams(p) ==
  /\ p # params
  /\ FacetRender(endpoint, p, facetQ)

\* The parent passes another endpoint
FacetSetEndpoint(e) ==
  /\ e # endpoint
  /\ FacetRender(e, params, facetQ)

\* Unmount: the cleanup of the last effect
FacetUnmount ==
  /\ facetMounted = "yes"
  /\ facetMounted' = "gone"
  /\ facetReqs' = Deactivate(facetReqs)
  /\ facetOutcome' = "none"
  /\ UNCHANGED <<endpoint, params, facetQ, facetItems, facetLoading, facetError>>
  /\ UNCHANGED <<sessionVars, addVars, form, adminVars, adminEvent, pubs, badgeVars, mineVars, homeVars, authorsVars>>

\* The i-th request in flight is answered with n rows (ok), or fails
FacetResponse(i, ok, n) ==
  /\ i \in 1..Len(facetReqs)
  /\ facetReqs' = RemoveAt(facetReqs, i)
  /\ LET req == facetReqs[i] IN
       IF req.active
         THEN /\ facetItems' = IF ok THEN [rows |-> n, endpoint |-> req.endpoint, qs |-> req.qs]
                               ELSE facetCatch(req).items
              /\ facetError' = IF ok THEN facetError ELSE facetCatch(req).error
              /\ facetLoading' = FALSE
              /\ facetOutcome' = IF ok THEN "ok" ELSE "fail"
         ELSE /\ UNCHANGED <<facetItems, facetError, facetLoading>>
              /\ facetOutcome' = "stale"
  /\ UNCHANGED <<facetMounted, endpoint, params, facetQ>>
  /\ UNCHANGED <<sessionVars, addVars, form, adminVars, adminEvent, pubs, badgeVars, mineVars, homeVars, authorsVars>>

NextFacet ==
  \/ FacetMount
  \/ \E c \in Keys : FacetType(c)
  \/ FacetBackspace
  \/ \E p \in ParamSets : FacetSetParams(p)
  \/ \E e \in Endpoints : FacetSetEndpoint(e)
  \/ FacetUnmount
  \/ \E i \in 1..Len(facetReqs), ok \in BOOLEAN :
       \E n \in (IF ok THEN RowCounts ELSE {0}) : FacetResponse(i, ok, n)

\* One FacetMultiSelect alone
SpecFacet == InitFresh /\ [][NextFacet]_vars

(* ------------------------------------------------------------------ *)
(* pages/authors.tsx (AuthorsPage, useDebounced)                      *)
(* ------------------------------------------------------------------ *)
\* useDebounced(q, 300)
DebounceMs == 300
\* The clock of this page advances in steps of this many milliseconds
ClockStepMs == 100

\* setTimeout(() => setV(value), ms) with a delay of 0
\* (mutant: the timeout that does not wait)
setTimer_now(value, ms) == [armed |-> TRUE, value |-> value, left |-> 0]

\* useDebounced effect: clearTimeout of the previous run, then
\* setTimeout(() => setV(value), ms)
setTimer(value, ms) == [armed |-> TRUE, value |-> value, left |-> ms]

\* The effect on [debounced]: ctrl.abort() of the previous run (its promise
\* rejects, and its finally sets loading to false after the new
\* setLoading(true)), then the fetch for debounced.trim().  A request is
\* recorded with its query and with the debounced value the effect ran for.
authorsEffect(v) ==
  /\ authorsReqs' = <<[query |-> Trim(v), value |-> v]>>
  /\ authorsLoading' = (authorsReqs = <<>>)

\* Mount: useDebounced starts with the value of q and arms its timeout; the
\* effect on [debounced] fetches for the initial value
AuthorsMount ==
  /\ ~authorsMounted
  /\ authorsMounted' = TRUE
  /\ timer' = setTimer(authorsQ, DebounceMs)
  /\ idle' = 0
  /\ authorsEffect(debounced)
  /\ UNCHANGED <<authorsQ, debounced, authorsItems>>
  /\ UNCHANGED <<sessionVars, addVars, form, adminVars, adminEvent, pubs, badgeVars, mineVars, homeVars, facetVars>>

\* Time passes
AuthorsTick ==
  /\ authorsMounted
  /\ idle < DebounceMs \/ (timer.armed /\ timer.left > 0)
  /\ idle' = Min(DebounceMs, idle + ClockStepMs)
  /\ timer' = IF timer.armed
                THEN [timer EXCEPT !.left = Max(0, timer.left - ClockStepMs)] ELSE timer
  /\ UNCHANGED <<authorsMounted, authorsQ, debounced, authorsItems, authorsLoading,
                 authorsReqs>>
  /\ UNCHANGED <<sessionVars, addVars, form, adminVars, adminEvent, pubs, badgeVars, mineVars, homeVars, facetVars>>

\* A keystroke in the search input: setQ, then the effect of useDebounced
AuthorsRender(q) ==
  /\ authorsMounted
  /\ q # authorsQ
  /\ authorsQ' = q
  /\ timer' = setTimer(q, DebounceMs)
  /\ idle' = 0
  /\ UNCHANGED <<authorsMounted, debounced, authorsItems, authorsLoading, authorsReqs>>
  /\ UNCHANGED <<sessionVars, addVars, form, adminVars, adminEvent, pubs, badgeVars, mineVars, homeVars, facetVars>>

AuthorsType(c) ==
  /\ Len(authorsQ) < MaxQLen
  /\ AuthorsRender(Append(authorsQ, c))

AuthorsBackspace ==
  /\ authorsQ # <<>>
  /\ AuthorsRender(SubSeq(authorsQ, 1, Len(authorsQ) - 1))

\* The timeout fires: setV(value); when the value is another one, the
\* effect on [debounced] runs
AuthorsTimeout ==
  /\ authorsMounted
  /\ timer.armed /\ timer.left = 0
  /\ timer' = NoTimer
  /\ debounced' = timer.value
  /\ IF timer.value # debounced
       THEN authorsEffect(timer.value)
       ELSE UNCHANGED <<authorsLoading, authorsReqs>>
  /\ UNCHANGED <<authorsMounted, authorsQ, idle, authorsItems>>
  /\ UNCHANGED <<sessionVars, addVars, form, adminVars, adminEvent, pubs, badgeVars, mineVars, homeVars, facetVars>>

\* The request in flight is answered (ok) or fails
AuthorsResponse(ok) ==
  /\ authorsReqs # <<>>
  /\ authorsReqs' = <<>>
  /\ authorsItems' = IF ok THEN [loaded |-> TRUE, query |-> authorsReqs[1].query]
                     ELSE authorsItems
  /\ authorsLoading' = FALSE
  /\ UNCHANGED <<authorsMounted, authorsQ, debounced, timer, idle>>
  /\ UNCHANGED <<sessionVars, addVars, form, adminVars, adminEvent, pubs, badgeVars, mineVars, homeVars, facetVars>>

NextAuthors ==
  \/ AuthorsMount
  \/ AuthorsTick
  \/ \E c \in Keys : AuthorsType(c)
  \/ AuthorsBackspace
  \/ AuthorsTimeout
  \/ \E ok \in BOOLEAN : AuthorsResponse(ok)

\* The authors page alone
SpecAuthors == InitFresh /\ [][NextAuthors]_vars

(* ------------------------------------------------------------------ *)
(* components/SourceBadge.tsx, in its two versions                    *)
(* ------------------------------------------------------------------ *)
\* A character is a one-letter string for a Latin letter and "+" with a
\* transliteration for a Cyrillic letter; a text is a sequence of characters.
UpperCase ==
  <<"A", "C", "J", "N", "O", "P", "S", "U", "W",
    "+B", "+GH", "+D", "+ZH", "+K", "+M", "+O", "+N", "+S", "+T">>
LowerCase ==
  <<"a", "c", "j", "n", "o", "p", "s", "u", "w",
    "+b", "+gh", "+d", "+zh", "+k", "+m", "+o", "+n", "+s", "+t">>

\* toLowerCase of one character
LowerChar(c) ==
  IF \E i \in 1..Len(UpperCase) : UpperCase[i] = c
    THEN LowerCase[CHOOSE i \in 1..Len(UpperCase) : UpperCase[i] = c]
    ELSE c

\* s.toLowerCase()
toLowerCase(s) == [i \in 1..Len(s) |-> LowerChar(s[i])]

\* s.includes(sub)
includes(s, sub) ==
  \E i \in 0..(Len(s) - Len(sub)) : SubSeq(s, i + 1, i + Len(sub)) = sub

\* (v || ''): undefined, null and '' give ''
OrEmpty(v) == IF FalsyStr(v) THEN <<>> ELSE v

\* The texts the choosers compare with
T_kokson == <<"k", "o", "k", "s", "o", "n">>
T_article == <<"a", "r", "t", "i", "c", "l", "e">>
T_scopus == <<"s", "c", "o", "p", "u", "s">>
T_wos == <<"w", "o", "s">>
T_science == <<"s", "c", "i", "e", "n", "c", "e">>
T_thesis == <<"t", "h", "e", "s", "i", "s">>
T_koks == <<"k", "o", "k", "s">>
\* 'koksоn' of SourceBadge.tsx line 8 is written with a Cyrillic о
T_koks_on == <<"k", "o", "k", "s", "+o", "n">>
T_cy_kkson == <<"+k", "+k", "+s", "+o", "+n">>
T_cy_bgsbk == <<"+b", "+gh", "+s", "+b", "+k">>
T_cy_disser == <<"+d", "+i", "+s", "+s", "+e", "+r">>
T_cy_koks == <<"+k", "+o", "+k", "+s">>
T_cy_kokson == <<"+k", "+o", "+k", "+s", "+o", "+n">>

\* The labels
L_KKSON == <<"+K", "+K", "+S", "+O", "+N">>
L_Statya == <<"+S", "+t", "+a", "+t", "+'", "+ya">>
L_Scopus == <<"S", "c", "o", "p", "u", "s">>
L_WoS == <<"W", "o", "S">>
L_Dissertatsii == <<"+D", "+i", "+s", "+s", "+e", "+r", "+t", "+a", "+ts", "+i", "+i">>
L_BezIstochnika ==
  <<"+B", "+e", "+z", " ", "+i", "+s", "+t", "+o", "+ch", "+n", "+i", "+k", "+a">>
L_Zhurnal == <<"+ZH", "+u", "+r", "+n", "+a", "+l">>
L_KOKSON == <<"+K", "+O", "+K", "+S", "+O", "+N">>
Ellipsis == <<"...">>

\* The longest text the span shows in full
MaxBadgeText == 12

\* detectBadge of the version with docType and uploadSource: label and title
\* (title is null where the code returns none)
detectBadge(p) ==
  LET n == toLowerCase(OrEmpty(p.name))
      t == toLowerCase(OrEmpty(p.type))
      us == toLowerCase(OrEmpty(p.uploadSource))
  IN IF us = T_kokson \/ us = T_article
       THEN LET dt == Trim(OrEmpty(p.docType))
                low == toLowerCase(dt)
            IN IF dt # <<>>
                 THEN [label |-> IF includes(low, T_cy_kkson) \/ includes(low, T_cy_bgsbk)
                                   THEN L_KKSON ELSE dt,
                       title |-> dt]
                 ELSE [label |-> L_Statya, title |-> L_Statya]
     ELSE IF t = T_scopus \/ includes(n, T_scopus) THEN [label |-> L_Scopus, title |-> NullStr]
     ELSE IF t = T_wos \/ includes(n, T_science) THEN [label |-> L_WoS, title |-> NullStr]
     ELSE IF t = T_thesis \/ includes(n, T_cy_disser)
       THEN [label |-> L_Dissertatsii, title |-> NullStr]
     ELSE IF FalsyStr(p.name) THEN [label |-> L_BezIstochnika, title |-> NullStr]
     ELSE [label |-> L_Zhurnal, title |-> NullStr]

\* SourceBadge of that version: the span shows the first 12 characters of
\* b.title || b.label, and carries the whole of it as its title attribute
SourceBadge(p) ==
  LET b == detectBadge(p)
      full == IF FalsyStr(b.title) THEN b.label ELSE b.title
      short == IF Len(full) > MaxBadgeText
                 THEN SubSeq(full, 1, MaxBadgeText) \o Ellipsis ELSE full
  IN [label |-> b.label, text |-> short, title |-> full]

\* detectBadge of the version with name and type only
detectBadgeNameType(p) ==
  LET n == toLowerCase(OrEmpty(p.name))
      t == toLowerCase(OrEmpty(p.type))
  IN IF t = T_scopus \/ includes(n, T_scopus) THEN [label |-> L_Scopus]
     ELSE IF t = T_wos \/ includes(n, T_science) THEN [label |-> L_WoS]
     ELSE IF includes(t, T_cy_koks) \/ includes(n, T_cy_kokson) \/ t = T_koks \/ t = T_koks_on
       THEN [label |-> L_KOKSON]
     ELSE IF t = T_thesis \/ includes(n, T_cy_disser) THEN [label |-> L_Dissertatsii]
     ELSE IF FalsyStr(p.name) THEN [label |-> L_BezIstochnika]
     ELSE [label |-> L_Zhurnal]

\* SourceBadge of that version: the span shows the label, with no title
SourceBadgeNameType(p) ==
  LET b == detectBadgeNameType(p)
  IN [label |-> b.label, text |-> b.label, title |-> NullStr]

\* Sample props: undefined, '', and texts that meet or miss each rule
BadgeNames ==
  {NullStr, <<>>,
   <<"S", "C", "O", "P", "U", "S">>,
   <<"S", "c", "i", "e", "n", "c", "e">>,
   <<"+D", "+i", "+s", "+s", "+e", "+r">>,
   <<"+K", "+o", "+k", "+s", "+o", "+n">>,
   <<"N", "a", "t", "u", "r", "e">>}
BadgeTypes ==
  {NullStr, <<>>, T_scopus, <<"W", "O", "S">>, T_thesis, T_koks,
   <<"j", "o", "u", "r", "n", "a", "l">>}
DocTypes ==
  {NullStr, <<>>, <<" ">>,
   L_KKSON,
   <<"+k", "+k", "+S", "+O", "+N", " ", "+t", "+i", "+z", "+i", "+m">>,
   <<"+B", "+GH", "+S", "+B", "+K", " ", "+zh", "+u", "+r", "+n", "+a", "+l", "+y">>,
   <<" ", "+T", "+e", "+z", "+i", "+s", " ">>,
   <<"+M", "+a", "+t", "+e", "+r", "+i", "+a", "+l", "+y", " ", "+k", "+o", "+n", "+f">>}
UploadSources ==
  {NullStr, <<>>, T_kokson, <<"A", "r", "t", "i", "c", "l", "e">>, T_scopus}

\* A publication row renders its badge with all four props
BadgeRender(p) ==
  /\ badgeFile = "none"
  /\ badgeFile' = "docType"
  /\ badgeProps' = p
  /\ badge' = SourceBadge(p)
  /\ UNCHANGED <<sessionVars, addVars, form, adminVars, adminEvent, pubs, mineVars, homeVars, facetVars, authorsVars>>

\* A publication row renders its badge with name and type
BadgeRenderNameType(name, type) ==
  /\ badgeFile = "none"
  /\ badgeFile' = "nameType"
  /\ badgeProps' = [NoProps EXCEPT !.name = name, !.type = type]
  /\ badge' = SourceBadgeNameType(badgeProps')
  /\ UNCHANGED <<sessionVars, addVars, form, adminVars, adminEvent, pubs, mineVars, homeVars, facetVars, authorsVars>>

NextBadge ==
  \/ \E p \in [name : BadgeNames, type : BadgeTypes, docType : DocTypes,
               uploadSource : UploadSources] : BadgeRender(p)
  \/ \E name \in BadgeNames, type \in BadgeTypes : BadgeRenderNameType(name, type)

\* The badges alone
SpecBadge == InitFresh /\ [][NextBadge]_vars

(* ------------------------------------------------------------------ *)
(* Properties of the session and of the pages that depend on it       *)
(* ------------------------------------------------------------------ *)
SessionEnded(l) == l.role = "guest" /\ l.token = Null /\ l.user_id = NullStr

\* C1: when more than 24 hours have passed since the last recorded activity
\* of a session, the next expiry check ends the session, also when the
\* user has resumed activity before that check.
C1_AutoLogout ==
  [][(checked' /\ lapsed /\ getRole(ls) # "guest") => SessionEnded(ls)']_vars

\* C2: maybeExpireSession clears auth and returns true exactly when a
\* last-activity timestamp is stored, is a finite number and is more than
\* INACTIVITY_TIMEOUT_MS older than now; otherwise it returns false and
\* leaves role, token and user id as they were.
C2_MaybeExpireExact ==
  [][checked' =>
       IF Lapsed(ls, now)
         THEN expired' /\ SessionEnded(ls)'
         ELSE /\ ~expired'
              /\ ls'.role = ls.role
              /\ ls'.token = ls.token
              /\ ls'.user_id = ls.user_id]_vars

\* A session that was opened by a login has just been expired by the check
C2_Witness ==
  checked /\ expired /\ ls.role = "guest" /\ ls.token = Null /\ ls.clientId # Null

\* C3: an upload request is issued only while the stored role is not 'guest'.
C3_UploadOnlyAuthenticated ==
  [][(submitting' /\ ~submitting) => getRole(ls) # "guest"]_vars

\* C4: approve, reject and delete requests are issued only while the stored
\* role is 'admin'.
C4_OnlyAdminModerates ==
  [][(\E r \in adminReqs' \ adminReqs : r.kind \in {"approve", "reject", "delete"})
       => getRole(ls) = "admin"]_vars

\* C5: every publication of the admin list has a status in
\* {pending, approved, rejected}, whatever admin actions were taken.
C5_StatusInSet == \A i \in 1..Len(items) : items[i].status \in Statuses

\* A publication approved on the page is shown next to one rejected with a note
C5_Witness ==
  /\ status = "pending"
  /\ ~loading
  /\ adminReqs = {}
  /\ error = Null
  /\ \E i \in 1..Len(items) : items[i].status = "approved"
  /\ \E i \in 1..Len(items) : items[i].status = "rejected" /\ items[i].note = "n"

\* C6: the response of a superseded search request never overwrites the
\* results of a request issued after it.
C6_NoStaleOverwrite == ~staleShown

(* ------------------------------------------------------------------ *)
(* Properties of FacetMultiSelect                                     *)
(* ------------------------------------------------------------------ *)
\* The items shown are those of the request for the current endpoint and
\* query string
FacetItemsCurrent ==
  facetItems.endpoint = endpoint /\ facetItems.qs = Qs(params, facetQ)

\* C7 (as stated): while the component is mounted and has received items,
\* the items shown are always those of the request for the current query
\* string.
C7_ItemsAlwaysCurrent ==
  (facetMounted = "yes" /\ facetItems # NoItems) => FacetItemsCurrent

\* C7 (amended): the items and the error message are updated only by the
\* answer or failure of the request for the current endpoint and query
\* string, never after the unmount; and whenever the component is mounted
\* and not loading, the items shown are those of the request for the
\* current query string.
C7_StaleIgnored ==
  /\ [][(facetItems' # facetItems \/ (facetError' # facetError /\ facetError' # ""))
         => (facetMounted = "yes" /\ FacetItemsCurrent')]_vars
  /\ []((facetMounted = "yes" /\ ~facetLoading) => FacetItemsCurrent)

\* The answer of a superseded request has just been dropped while the rows
\* of the later request are shown
C7_Witness ==
  /\ facetOutcome = "stale"
  /\ facetMounted = "yes"
  /\ ~facetLoading
  /\ facetItems.rows = 1
  /\ facetQ # <<>>

\* C8: a keystroke in the facet search box issues no request by itself
\* (the request for the final text is issued once, after the typing stops).
C8_Debounced ==
  [][facetQ' # facetQ => Len(facetReqs') = Len(facetReqs)]_vars

\* C10: when the request for the current query fails, the item list is
\* emptied, the error is 'api_unreachable' (the inline message is shown)
\* and loading is false; the error is cleared when the next request starts.
C10_FailureHandled ==
  /\ [](facetOutcome = "fail"
         => (facetItems.rows = 0 /\ facetError = "api_unreachable" /\ ~facetLoading))
  /\ [][Len(facetReqs') > Len(facetReqs) => (facetError' = "" /\ facetLoading')]_vars

\* The request for a typed text has just failed
C10_Witness ==
  /\ facetOutcome = "fail"
  /\ facetError = "api_unreachable"
  /\ facetItems.qs = <<"all", <<"a">>>>
  /\ facetReqs = <<>>

(* ------------------------------------------------------------------ *)
(* Properties of the authors page                                     *)
(* ------------------------------------------------------------------ *)
\* An author-search request is issued by this step
AuthorsIssued == authorsReqs' # <<>> /\ authorsReqs' # authorsReqs

\* C9 (as stated): an author-search request is issued only for a query
\* value that has stayed unchanged for 300 ms.
C9_OnlyAfterQuiet ==
  [][AuthorsIssued => (idle = DebounceMs /\ authorsReqs'[1].value = authorsQ)]_vars

\* C9 (amended): after the request of the mount for the initial empty
\* value, a request is issued only for a query value that has stayed
\* unchanged for 300 ms; a keystroke restarts the timer and issues no
\* request; and only the answer of the request for the current debounced
\* value is applied to the list.
C9_Debounced ==
  /\ [][AuthorsIssued =>
           IF authorsMounted
             THEN idle = DebounceMs /\ authorsReqs'[1].value = authorsQ
             ELSE authorsReqs'[1].value = <<>>]_vars
  /\ [][authorsQ' # authorsQ =>
           (authorsReqs' = authorsReqs /\ timer' = setTimer(authorsQ', DebounceMs))]_vars
  /\ [][authorsItems' # authorsItems =>
           (authorsReqs # <<>> /\ authorsReqs[1].value = debounced
              /\ authorsItems'.query = Trim(debounced))]_vars

\* The request for a typed text is in flight after the request for the
\* initial value was aborted, and no answer has been applied
C9_Witness ==
  /\ authorsReqs = <<[query |-> <<"a">>, value |-> <<"a">>]>>
  /\ debounced = <<"a">>
  /\ ~authorsLoading
  /\ ~authorsItems.loaded

(* ------------------------------------------------------------------ *)
(* Properties of the home page                                        *)
(* ------------------------------------------------------------------ *)
\* C11: when a search request of the home page has failed, the page shows
\* an error message and the loading indicator is false.
C11_FailureSurfaced ==
  homeEvent = "fail" => (HomeStatusLine = "error" /\ ~homeLoading)

(* ------------------------------------------------------------------ *)
(* Properties of the badges                                           *)
(* ------------------------------------------------------------------ *)
\* The upload source is 'kokson' or 'article', in any case of the letters
ArticleSource(p) ==
  toLowerCase(OrEmpty(p.uploadSource)) \in {T_kokson, T_article}

\* The docType contains 'кксон' or 'бғсбк', in any case of the letters
KksonDocType(dt) ==
  includes(toLowerCase(dt), T_cy_kkson) \/ includes(toLowerCase(dt), T_cy_bgsbk)

\* C12: for upload source 'kokson' or 'article', a docType that contains
\* 'кксон' or 'бғсбк' gives a badge whose text is 'ККСОН' and whose title is
\* the full docType; any other non-blank docType is the label itself; a
\* blank docType gives the label 'Статья'.
C12_BadgeLabel ==
  (badgeFile = "docType" /\ ArticleSource(badgeProps)) =>
    LET dt == Trim(OrEmpty(badgeProps.docType)) IN
    IF KksonDocType(dt) THEN badge.text = L_KKSON /\ badge.title = dt
    ELSE IF dt # <<>> THEN badge.label = dt
    ELSE badge.label = L_Statya

\* The label the stated precedence gives for props p
ClaimedLabel(p) ==
  LET n == toLowerCase(OrEmpty(p.name))
      t == toLowerCase(OrEmpty(p.type))
      dt == Trim(OrEmpty(p.docType))
  IN CASE ArticleSource(p) ->
            (IF dt = <<>> THEN L_Statya ELSE IF KksonDocType(dt) THEN L_KKSON ELSE dt)
       [] ~ArticleSource(p) /\ (t = T_scopus \/ includes(n, T_scopus)) -> L_Scopus
       [] OTHER ->
            IF t = T_wos \/ includes(n, T_science) THEN L_WoS
            ELSE IF t = T_thesis \/ includes(n, T_cy_disser) THEN L_Dissertatsii
            ELSE IF OrEmpty(p.name) = <<>> THEN L_BezIstochnika
            ELSE L_Zhurnal

\* C13: every badge that is rendered has the one label that the precedence
\* upload source, Scopus, WoS, thesis, no source, journal gives for its props.
C13_BadgeChooser ==
  badgeFile # "none" => badge.label = ClaimedLabel(badgeProps)

(* ------------------------------------------------------------------ *)
(* Properties of the add-publication page                             *)
(* ------------------------------------------------------------------ *)
\* A file, a journal URL, a publication type, a date and a language are given
ArticleComplete(f) == f.file /\ f.kokUrl /\ f.docType /\ f.publishedDate /\ f.kokLang

\* Every author item has a first and a last name
AuthorsGiven(f) ==
  f.authors # <<>> /\ \A i \in 1..Len(f.authors) : ~BadAuthor(f.authors[i])

\* C14: a submit of an 'article' form that lacks the file, the URL, the
\* type, the date or the language sends no request, shows an error and
\* leaves submitting false; an upload request of type 'article' carries all
\* five; a 'scopus' form with valid authors is sent without a file.
C14_ArticleUpload ==
  [][form' # NoForm =>
       /\ (form'.uploadSource = "article" /\ ~ArticleComplete(form'))
            => (upload' = upload /\ done' = "error" /\ ~submitting')
       /\ (upload' # upload /\ form'.uploadSource = "article")
            => /\ ArticleComplete(form')
               /\ upload'.body.upload_source = "article"
               /\ upload'.body.file /\ upload'.body.url /\ upload'.body.doc_type
               /\ upload'.body.published_date /\ upload'.body.language
       /\ (form'.uploadSource = "scopus" /\ ~form'.file /\ AuthorsGiven(form'))
            => (upload' # upload /\ upload'.body.upload_source = "scopus" /\ submitting')]_vars

\* An article upload with all its parts is in flight
C14_Witness ==
  /\ upload # NoRequest
  /\ submitting
  /\ upload.body.upload_source = "article"
  /\ upload.body.file /\ upload.body.language /\ upload.body.published_date

(* ------------------------------------------------------------------ *)
(* MyPublicationsPage (pages/kokso.tsx)                                *)
(* ------------------------------------------------------------------ *)

\* The publications of the user that the backend can return
MaxMine == 3
MineStatuses == {"pending", "approved", "rejected"}
MineLists ==
  UNION {[1..n -> MineStatuses] : n \in 0..MaxMine}

\* GET /publications/mine answers with a list: publication i has id i
MineData(l) == [i \in 1..Len(l) |-> [id |-> i, status |-> l[i]]]

\* items.find(i => i.id === editId) || null
Find(its, id) ==
  IF \E i \in 1..Len(its) : its[i].id = id
  THEN its[CHOOSE i \in 1..Len(its) : its[i].id = id /\ \A j \in 1..(i - 1) : its[j].id # id]
  ELSE [id |-> 0, status |-> "none"]
editItem == Find(mineItems, editId)

\* The edit button is rendered for every status
CanEdit_any(st) == TRUE

\* The condition under which a row renders its edit button
CanEdit(st) == st = "pending" \/ st = "rejected"

\* useEffect(() => { load() }, []): load sets loading, clears error, fetches
MineMount ==
  /\ ~mineMounted
  /\ mineMounted' = TRUE
  /\ mineLoading' = TRUE
  /\ mineReqs' = mineReqs \cup {[kind |-> "load", id |-> 0]}
  /\ UNCHANGED <<mineItems, editId, saving, saveErr>>
  /\ UNCHANGED <<sessionVars, addVars, form, adminVars, adminEvent, pubs, badgeVars, homeVars, facetVars,
                 authorsVars>>

\* The answer to load: setItems(data) when ok; loading returns to false
MineLoadResponse(ok, l) ==
  /\ [kind |-> "load", id |-> 0] \in mineReqs
  /\ mineReqs' = mineReqs \ {[kind |-> "load", id |-> 0]}
  /\ mineItems' = IF ok THEN MineData(l) ELSE mineItems
  /\ mineLoading' = FALSE
  /\ UNCHANGED <<mineMounted, editId, saving, saveErr>>
  /\ UNCHANGED <<sessionVars, addVars, form, adminVars, adminEvent, pubs, badgeVars, homeVars, facetVars,
                 authorsVars>>

\* The edit button of a row that is rendered: openEdit(p)
openEdit(i) ==
  /\ mineMounted /\ ~mineLoading
  /\ i \in 1..Len(mineItems)
  /\ CanEdit(mineItems[i].status)
  /\ editId' = mineItems[i].id
  /\ saveErr' = Null
  /\ UNCHANGED <<mineMounted, mineItems, mineLoading, saving, mineReqs>>
  /\ UNCHANGED <<sessionVars, addVars, form, adminVars, adminEvent, pubs, badgeVars, homeVars, facetVars,
                 authorsVars>>

\* The Cancel button of the edit form
cancelEdit ==
  /\ editItem.id # 0
  /\ editId' = 0
  /\ UNCHANGED <<mineMounted, mineItems, mineLoading, saving, saveErr, mineReqs>>
  /\ UNCHANGED <<sessionVars, addVars, form, adminVars, adminEvent, pubs, badgeVars, homeVars, facetVars,
                 authorsVars>>

\* The Save button of the edit form (disabled while saving): saveEdit up to the fetch
saveEdit ==
  /\ editItem.id # 0
  /\ ~saving
  /\ saving' = TRUE
  /\ saveErr' = Null
  /\ mineReqs' = mineReqs \cup {[kind |-> "edit", id |-> editItem.id]}
  /\ UNCHANGED <<mineMounted, mineItems, mineLoading, editId>>
  /\ UNCHANGED <<sessionVars, addVars, form, adminVars, adminEvent, pubs, badgeVars, homeVars, facetVars,
                 authorsVars>>

\* The answer to the edit request: the rest of saveEdit
MineEditResponse(r, ok, st) ==
  /\ r \in mineReqs /\ r.kind = "edit"
  /\ mineReqs' = mineReqs \ {r}
  /\ IF ok
     THEN /\ mineItems' = [i \in 1..Len(mineItems) |->
                             IF mineItems[i].id = r.id THEN [id |-> r.id, status |-> st]
                             ELSE mineItems[i]]
          /\ editId' = 0
          /\ saveErr' = saveErr
     ELSE /\ saveErr' = "error"
          /\ UNCHANGED <<mineItems, editId>>
  /\ saving' = FALSE
  /\ UNCHANGED <<mineMounted, mineLoading>>
  /\ UNCHANGED <<sessionVars, addVars, form, adminVars, adminEvent, pubs, badgeVars, homeVars, facetVars,
                 authorsVars>>

NextMine ==
  \/ MineMount
  \/ \E ok \in BOOLEAN, l \in MineLists : MineLoadResponse(ok, l)
  \/ \E i \in 1..MaxMine : openEdit(i)
  \/ cancelEdit
  \/ saveEdit
  \/ \E r \in mineReqs, ok \in BOOLEAN, st \in MineStatuses : MineEditResponse(r, ok, st)

\* The 'my publications' page alone
SpecMine == InitFresh /\ [][NextMine]_vars

(* ------------------------------------------------------------------ *)
(* Properties of MyPublicationsPage                                    *)
(* ------------------------------------------------------------------ *)

\* C15: the edit form is opened, and an edit request is sent, only for a
\* publication whose status in the list is 'pending' or 'rejected'; none is
\* sent for a publication shown as 'approved'
C15_EditOnlyPendingRejected ==
  [][/\ (editId' # editId /\ editId' # 0) =>
          Find(mineItems, editId').status \in {"pending", "rejected"}
     /\ \A r \in mineReqs' \ mineReqs :
          r.kind = "edit" => /\ Find(mineItems, r.id).status \in {"pending", "rejected"}
                             /\ Find(mineItems', r.id).status \in {"pending", "rejected"}
     /\ editItem.id # 0 => editItem.status \in {"pending", "rejected"}]_vars

\* An edit request of a rejected publication is in flight while the list
\* also shows an approved one
C15_Witness ==
  /\ \E r \in mineReqs : r.kind = "edit" /\ Find(mineItems, r.id).status = "rejected"
  /\ \E i \in 1..Len(mineItems) : mineItems[i].status = "approved"

(* ------------------------------------------------------------------ *)
(* The helpers of lib/auth.ts applied to a stored session              *)
(* ------------------------------------------------------------------ *)

\* What localStorage can hold when a helper is called: the keys are written
\* by setAuth, clearAuth, markActivity and ensureClientId only
AuthStores ==
  [role : Roles \cup {Null}, token : {Null, "tok"}, user_id : {NullStr, String(7)},
   last_active_at : {NullStr, String(Now0)}, clientId : {Null, "cid-1"}]

\* A helper ran that is not maybeExpireSession: the other components stay as they are
AuthFrame ==
  /\ checked' = FALSE
  /\ expired' = FALSE
  /\ UNCHANGED <<now, ticks, lapsed, page, navRole>>
  /\ UNCHANGED <<addVars, form, adminVars, adminEvent, pubs, badgeVars, mineVars, homeVars, facetVars,
                 authorsVars>>

AuthSetAuth(role, token, userId) ==
  /\ ls' = setAuth(ls, now, role, token, userId)
  /\ AuthFrame

\* The logout button of the NavBar, and the expiry, call clearAuth()
AuthClearAuth ==
  /\ ls' = clearAuth(ls)
  /\ AuthFrame

AuthMaybeExpire ==
  /\ LET r == maybeExpireSession(ls, now) IN
       /\ ls' = r.ls
       /\ expired' = r.ret
  /\ checked' = TRUE
  /\ UNCHANGED <<now, ticks, lapsed, page, navRole>>
  /\ UNCHANGED <<addVars, form, adminVars, adminEvent, pubs, badgeVars, mineVars, homeVars, facetVars,
                 authorsVars>>

\* authHeaders() calls ensureClientId(), which may write the storage
AuthHeaders ==
  /\ ls' = ensureClientId(ls)
  /\ AuthFrame

\* Time passes
AuthTick(d) ==
  /\ ticks < MaxTicks
  /\ ticks' = ticks + 1
  /\ now' = now + d
  /\ checked' = FALSE
  /\ expired' = FALSE
  /\ UNCHANGED <<ls, lapsed, page, navRole>>
  /\ UNCHANGED <<addVars, form, adminVars, adminEvent, pubs, badgeVars, mineVars, homeVars, facetVars,
                 authorsVars>>

NextAuth ==
  \/ \E role \in Roles, token \in {"", "tok"},
        userId \in {Undefined, [kind |-> "null", val |-> 0], Num(7), Num(12)} :
          AuthSetAuth(role, token, userId)
  \/ AuthClearAuth
  \/ AuthMaybeExpire
  \/ AuthHeaders
  \/ \E d \in TickSteps : AuthTick(d)

InitAuth == InitPages /\ pubs = {1} /\ ls \in AuthStores

SpecAuth == InitAuth /\ [][NextAuth]_vars

\* What the getters and authHeaders answer over a storage without a session
Cleared(l) ==
  /\ getRole(l) = "guest"
  /\ getToken(l) = ""
  /\ getUserId(l).kind = "null"
  /\ authHeaders(l).Authorization = Null
  /\ authHeaders(l).XUserId = NullStr

\* C16: after clearAuth the getters answer 'guest', '' and null and authHeaders
\* has neither Authorization nor X-User-Id; a client id that is stored is
\* never changed or removed by setAuth, clearAuth, maybeExpireSession or
\* authHeaders
C16_ClearedAndClientIdKept ==
  [][/\ (ls' = clearAuth(ls) \/ expired') => Cleared(ls')
     /\ ~Falsy(ls.clientId) => ls'.clientId = ls.clientId]_vars

\* The session with a user id has just expired in a browser that held a
\* client id of an earlier visit
C16_Witness ==
  /\ checked /\ expired
  /\ ls.clientId = "cid-1"
  /\ ls.last_active_at = String(Now0)
  /\ Cleared(ls)

(* ------------------------------------------------------------------ *)
(* Properties of the moderation actions                                *)
(* ------------------------------------------------------------------ *)

\* The approve, delete or reject requests that the step answers
Answered == {r \in adminReqs \ adminReqs' : r.kind \in {"approve", "delete", "reject"}}

\* C17: a non-OK answer to approve, delete or reject shows an alert and leaves
\* the list unchanged; after a failed reject the dialog keeps its publication
\* id and its note
C17_FailureAlerts ==
  [][adminEvent'.answer = "fail" =>
       /\ adminEvent'.alert
       /\ items' = items
       /\ \A r \in Answered : r.kind = "reject" =>
            (rejectId' = rejectId /\ rejectNote' = rejectNote)]_vars

\* A reject has just failed: the dialog is still open with the note typed
C17_Witness ==
  /\ adminEvent.answer = "fail" /\ adminEvent.alert
  /\ rejectId # 0 /\ rejectNote = "n"
  /\ \E i \in 1..Len(items) : items[i].id = rejectId /\ items[i].status = "pending"

\* C18: pressing Reject sends no request and opens the dialog of that
\* publication with an empty note; a reject request is sent only by Save in
\* the open dialog and carries the note, null when it is empty; Cancel closes
\* the dialog, sends no request and leaves the list unchanged
C18_RejectTwoStep ==
  [][/\ (rejectId = 0 /\ rejectId' # 0) =>
          /\ adminReqs' = adminReqs
          /\ rejectId' \in ItemIds
          /\ rejectNote' = ""
          /\ items' = items
     /\ \A r \in adminReqs' \ adminReqs : r.kind = "reject" =>
          /\ rejectId # 0
          /\ r.id = rejectId
          /\ RejectBody(r).note = (IF rejectNote = "" THEN Null ELSE rejectNote)
          /\ items' = items
     /\ (rejectId # 0 /\ rejectId' = 0 /\ adminEvent'.answer = "none") =>
          /\ adminReqs' = adminReqs
          /\ items' = items]_vars

\* Save was pressed in the dialog with an empty note: the request is in flight
C18_Witness ==
  /\ rejectId # 0 /\ rejectNote = ""
  /\ \E r \in adminReqs : r.kind = "reject" /\ r.id = rejectId /\ RejectBody(r).note = Null

\* The list with the publication pubId rewritten, every other one kept
Rewritten(list, pubId, st, note) ==
  [i \in 1..Len(list) |->
     IF list[i].id = pubId THEN [id |-> pubId, status |-> st, note |-> note] ELSE list[i]]

\* C19: a successful approve sets the target to 'approved' with note null, a
\* successful reject sets it to 'rejected' with the text entered (null when
\* nothing was entered), a successful delete removes it; the other
\* publications and the order of the list are unchanged
C19_FrameEffect ==
  [][adminEvent'.answer = "ok" =>
       \A r \in Answered :
         /\ r.kind = "approve" => items' = Rewritten(items, r.id, "approved", Null)
         /\ r.kind = "reject" =>
              items' = Rewritten(items, r.id, "rejected", IF r.note = "" THEN Null ELSE r.note)
         /\ r.kind = "delete" => items' = SelectSeq(items, LAMBDA p : p.id # r.id)]_vars

\* An action has just succeeded on a list of two publications, one of them
\* rejected with a note
C19_Witness ==
  /\ adminEvent.answer = "ok"
  /\ Len(items) = 2
  /\ items[1].status = "pending"
  /\ items[2].status = "rejected" /\ items[2].note = "n"

(* ------------------------------------------------------------------ *)
(* Properties of the home page refresh                                 *)
(* ------------------------------------------------------------------ *)

\* C20: the search request issued when the window regains focus or the
\* document becomes visible carries the query, sort and page that are
\* currently selected
C20_FocusRefetchesCurrent ==
  [][(homeEvent' = "focus" /\ searches' # searches) =>
       searches'[Len(searches')] = HomeCurrent]_vars

\* C21: once Reset was pressed and every request it caused is answered, the
\* query, sort and page are those of the cleared state and the results
\* displayed are the answer to the cleared state
C21_ResetShowsCleared ==
  (afterReset = "pending" /\ searches = <<>>) =>
     /\ HomeCurrent = InitialHome
     /\ homeData.loaded
     /\ homeData.params = InitialHome

====
